---- MODULE Spec2Model ----
(***************************************************************************)
(* Model of copilot-cli: the Copilot client (token cache, OAuth loader,    *)
(* token exchange, chat and streaming chat requests) of copilot.py and the *)
(* CLI driver (argument handling, action commands, completion handling) of *)
(* main.py.  Python strings are sequences of one-character strings.        *)
(***************************************************************************)
EXTENDS Integers, Sequences, FiniteSets, TLC

(* ---------------------------- bounds ---------------------------------- *)
MaxTime == 2
MaxLines == 3
MaxPrompt == 3

None == "None"
(* An optional value: Nothing, or Some(v).                                *)
Nothing == <<>>
Some(v) == <<v>>
Get(o) == o[1]

(* ------------------------- string helpers ----------------------------- *)
RECURSIVE Replace(_, _, _)
Replace(s, old, new) ==
    IF Len(s) < Len(old) \/ Len(old) = 0 THEN s
    ELSE IF SubSeq(s, 1, Len(old)) = old
         THEN new \o Replace(SubSeq(s, Len(old) + 1, Len(s)), old, new)
         ELSE <<Head(s)>> \o Replace(Tail(s), old, new)

RECURSIVE Concat(_)
Concat(ss) == IF ss = <<>> THEN <<>> ELSE Head(ss) \o Concat(Tail(ss))

SeqsUpTo(S, n) == UNION {[1..k -> S] : k \in 0..n}

PathVar == <<"$", "p", "a", "t", "h">>

(* --------------------------- data shapes ------------------------------ *)
(* Raw token JSON as the exchange endpoint returns it and as the cache    *)
(* file stores it; "extra" stands for fields CopilotToken does not know.  *)
Expiries == 0..(MaxTime + 1)
TokenData ==
    {[token |-> "t1", expires_at |-> e, extra |-> FALSE] : e \in Expiries}
    \cup {[token |-> "t2", expires_at |-> e, extra |-> TRUE] : e \in Expiries}

(* The CopilotToken pydantic model built from raw token data keeps the    *)
(* declared fields and drops unknown ones.                                *)
CopilotToken(token_data) ==
    [token |-> token_data.token, expires_at |-> token_data.expires_at]

(* Contents of /tmp/copilot_token.json.                                   *)
File(kind, data) == [kind |-> kind, data |-> data]
CacheContents ==
    {File(k, Nothing) : k \in {"absent", "corrupt", "badshape"}}
    \cup {File("json", Some(d)) : d \in TokenData}

(* Contents of hosts.json / apps.json.                                    *)
CredContents == {"absent", "nogithub", "ok", "invalid", "empty"}

(* The pairs (hosts.json, apps.json) the model starts from: one for each  *)
(* way through the loop of _load_oauth_token.                             *)
CredFiles ==
    { <<"absent", "absent">>, <<"nogithub", "absent">>,
      <<"nogithub", "nogithub">>, <<"nogithub", "ok">>, <<"ok", "absent">>,
      <<"invalid", "ok">>, <<"empty", "ok">>, <<"absent", "invalid">> }

(* Variant: the first entry is taken whatever its key is.                 *)
HostsData_from_file_any_key(content) ==
    CASE content = "nogithub" -> "gho"
      [] content = "ok"       -> "gho"
      [] content = "empty"    -> ""
      [] OTHER                -> "raise"

(* HostsData.from_file: the value returned, or the exception raised.      *)
HostsData_from_file(content) ==
    CASE content = "nogithub" -> None
      [] content = "ok"       -> "gho"
      [] content = "empty"    -> ""
      [] OTHER                -> "raise"

(* _load_oauth_token over the two files, in order.                        *)
RECURSIVE LoadFrom(_)
LoadFrom(files) ==
    IF files = <<>> THEN "AuthenticationError"
    ELSE IF Head(files) = "absent" THEN LoadFrom(Tail(files))
    ELSE LET host_data == HostsData_from_file(Head(files))
         IN IF host_data = "raise" THEN "AuthenticationError"
            ELSE IF host_data # None /\ host_data # "" THEN host_data
            ELSE LoadFrom(Tail(files))

(* Action records of the actions file.                                    *)
Cmd(key, cmd) == [key |-> key, cmd |-> cmd]
MkAction(name, prompt, model, to_file, stream, spinner, commands) ==
    [name |-> name, prompt |-> prompt, system_prompt |-> "sys-" \o name,
     model |-> model, to_file |-> to_file,
     options |-> [stream |-> stream, spinner |-> spinner],
     commands |-> commands]

Actions ==
    { MkAction("review", <<"R", "$", "a">>, None, Nothing, TRUE, TRUE,
               <<Cmd(<<"a">>, <<<<"g">>, PathVar>>)>>),
      MkAction("plain", <<"P">>, "o1", Some(PathVar \o <<"/", "o">>), FALSE,
               FALSE, <<>>),
      MkAction("pair", <<"$", "a", "$", "b">>, None, Nothing, TRUE, FALSE,
               <<Cmd(<<"a">>, <<<<"g">>>>), Cmd(<<"b">>, <<PathVar>>)>>) }

(* Standard output a command can produce.                                 *)
Outs == { <<"x">>, <<"$", "b">> }

(* Command-line arguments after parsing (create_parser defaults).         *)
NoArgs ==
    [list |-> TRUE, action |-> None, prompt |-> <<>>, no_stream |-> FALSE,
     no_spinner |-> TRUE, copy_to_clipboard |-> FALSE, path |-> <<".">>,
     model |-> "gpt-4o", system_prompt |-> "default"]
ArgSet ==
    { NoArgs }
    \cup
    [list : {FALSE}, action : {None} \cup {a.name : a \in Actions},
     prompt : {<<>>, <<"q">>}, no_stream : BOOLEAN, no_spinner : BOOLEAN,
     copy_to_clipboard : BOOLEAN, path : {<<".">>}, model : {"gpt-4o"},
     system_prompt : {"default"}]

get_action(name) == CHOOSE a \in Actions : a.name = name

(* Chat content the endpoint can answer with.                             *)
Texts == { <<"H", "i">>, <<>> }

(* --------------------------- the state -------------------------------- *)
VARIABLES
    now,            \* wall clock, epoch seconds
    cacheFile,      \* /tmp/copilot_token.json
    hostsFile,      \* github-copilot/hosts.json
    appsFile,       \* github-copilot/apps.json
    oauth_token,    \* client._oauth_token
    copilot_token,  \* client._copilot_token
    session_id,     \* client._session_id
    pc,             \* position of the process
    args,           \* parsed arguments
    action_obj,     \* resolved action or None
    base_prompt,    \* process_action_commands: its base_prompt parameter
    final_prompt,   \* process_action_commands: final_prompt
    cmd_idx,        \* process_action_commands: position in commands.items()
    ran,            \* commands executed, with the outputs captured
    current_prompt, \* main: current_prompt
    mode,           \* handle_completion: "stream" or "chat" once branched
    checked,        \* _ensure_valid_token: when it checked and what it found
    httpLog,        \* HTTP calls made by this process, in order
    lines,          \* stream_chat_completion: lines of the open response
    line_idx,       \* stream_chat_completion: lines consumed
    fragments,      \* fragments yielded so far
    response,       \* handle_completion: response
    result,         \* how the process ended
    stdout,         \* what was printed
    fileOut,        \* content written to the action's output file
    clipboard       \* pyperclip content

vars == <<now, cacheFile, hostsFile, appsFile, oauth_token, copilot_token,
          session_id, pc, args, action_obj, base_prompt, final_prompt, cmd_idx,
          ran, current_prompt, mode, checked, httpLog, lines, line_idx, fragments,
          response, result, stdout, fileOut, clipboard>>

env == <<cacheFile, hostsFile, appsFile>>
client == <<oauth_token, copilot_token, session_id>>
template == <<base_prompt, final_prompt, cmd_idx, ran>>
stream == <<lines, line_idx, fragments>>
outputs == <<response, stdout, fileOut, clipboard>>
call == <<mode, checked, httpLog>>

(* A process that has not started: nothing is parsed or constructed.      *)
Fresh ==
    /\ oauth_token = None /\ copilot_token = Nothing /\ session_id = ""
    /\ args = NoArgs /\ action_obj = Nothing
    /\ base_prompt = <<>> /\ final_prompt = <<>> /\ cmd_idx = 1 /\ ran = <<>>
    /\ current_prompt = <<>> /\ mode = None /\ checked = Nothing
    /\ httpLog = <<>>
    /\ lines = <<>> /\ line_idx = 0 /\ fragments = <<>>
    /\ response = Nothing /\ result = None /\ stdout = <<>>
    /\ fileOut = Nothing /\ clipboard = Nothing

Init ==
    /\ now \in 0..MaxTime
    /\ cacheFile \in CacheContents
    /\ \E files \in CredFiles : hostsFile = files[1] /\ appsFile = files[2]
    /\ pc = "boot"
    /\ Fresh

(* ------------------------ client construction ------------------------- *)
(* _load_cached_token: the token held afterwards, the file afterwards and *)
(* the exception that escapes, if any.  Text that is not JSON (or JSON    *)
(* that is no object) is caught and the file unlinked; an object of the   *)
(* wrong shape raises pydantic's ValidationError, which is not caught.    *)
load_cached_token(file) ==
    CASE file.kind = "absent" ->
            [token |-> Nothing, file |-> file, raised |-> None]
      [] file.kind = "corrupt" ->
            [token |-> Nothing, file |-> File("absent", Nothing), raised |-> None]
      [] file.kind = "badshape" ->
            [token |-> Nothing, file |-> file, raised |-> "ValidationError"]
      [] OTHER ->
            [token |-> Some(CopilotToken(Get(file.data))), file |-> file,
             raised |-> None]

(* main: the prompt an action starts from (lines 206-209).                *)
ActionPrompt(a, action) ==
    IF a.prompt # <<>> THEN action.prompt \o <<"\n">> \o a.prompt
    ELSE action.prompt

(* main: system_prompt and model (lines 211-212, 223-224).                *)
SystemPrompt(a, ao) ==
    IF ao # Nothing THEN Get(ao).system_prompt ELSE a.system_prompt
Model(a, ao) ==
    IF ao = Nothing THEN a.model
    ELSE IF Get(ao).model # None THEN Get(ao).model ELSE a.model

(* ------------------------------ main ---------------------------------- *)
(* main, lines 187-224 up to the first command: parse the arguments,      *)
(* construct the client, list or resolve the action.                      *)
main_start(a) ==
    /\ pc = "boot"
    /\ args' = a
    /\ LET c == load_cached_token(cacheFile) IN
       /\ cacheFile' = c.file
       /\ copilot_token' = c.token
       /\ IF c.raised # None
          THEN /\ pc' = "exit" /\ result' = c.raised
               /\ UNCHANGED <<action_obj, current_prompt, base_prompt,
                              final_prompt, stdout>>
          ELSE IF a.list
          THEN /\ pc' = "exit" /\ result' = "ok"
               /\ stdout' = <<<<"actions">>>>
                       \o [i \in 1..Cardinality(Actions) |-> <<"action">>]
               /\ UNCHANGED <<action_obj, current_prompt, base_prompt,
                              final_prompt>>
          ELSE IF a.action # None
          THEN LET action == get_action(a.action) IN
               /\ action_obj' = Some(action)
               /\ current_prompt' = ActionPrompt(a, action)
               /\ base_prompt' = ActionPrompt(a, action)
               /\ final_prompt' = ActionPrompt(a, action)
               /\ pc' = "commands"
               /\ UNCHANGED <<result, stdout>>
          ELSE /\ current_prompt' = a.prompt
               /\ pc' = "completion"
               /\ UNCHANGED <<action_obj, base_prompt, final_prompt, result,
                              stdout>>
    /\ UNCHANGED <<now, hostsFile, appsFile, oauth_token, session_id, cmd_idx,
                   ran, call, stream, response, fileOut, clipboard>>

(* ---------------------- process_action_commands ----------------------- *)
commands_of(ao) == IF ao = Nothing THEN <<>> ELSE Get(ao).commands

(* line 124: "$path" replaced in every word of the command.               *)
cmd_with_path(cmd, path) == [i \in 1..Len(cmd) |-> Replace(cmd[i], PathVar, path)]

(* line 126: the placeholder of a key, and its replacement.               *)
Placeholder(key) == <<"$">> \o key
substitute(prompt, key, out) == Replace(prompt, Placeholder(key), out)

(* One iteration of the loop whose command exits zero.                    *)
run_command_ok(out) ==
    /\ pc = "commands"
    /\ cmd_idx <= Len(commands_of(action_obj))
    /\ LET c == commands_of(action_obj)[cmd_idx] IN
       /\ ran' = Append(ran, [key |-> c.key,
                              cmd |-> cmd_with_path(c.cmd, args.path),
                              ok |-> TRUE, stdout |-> out])
       /\ final_prompt' = substitute(final_prompt, c.key, out)
    /\ cmd_idx' = cmd_idx + 1
    /\ UNCHANGED <<now, env, client, pc, args, action_obj, base_prompt,
                   current_prompt, call, stream, outputs, result>>

(* Variant: the error is printed and the loop goes on.                    *)
run_command_fail_swallowed ==
    /\ pc = "commands"
    /\ cmd_idx <= Len(commands_of(action_obj))
    /\ LET c == commands_of(action_obj)[cmd_idx] IN
       /\ ran' = Append(ran, [key |-> c.key,
                              cmd |-> cmd_with_path(c.cmd, args.path),
                              ok |-> FALSE, stdout |-> <<>>])
       /\ stdout' = stdout \o <<<<"failed">> \o c.key, <<"error">>>>
    /\ cmd_idx' = cmd_idx + 1
    /\ UNCHANGED <<now, env, client, pc, args, action_obj, base_prompt,
                   final_prompt, current_prompt, call, stream, response,
                   fileOut, clipboard, result>>

(* One iteration whose command exits non-zero: CalledProcessError is      *)
(* printed and re-raised, and main returns (lines 127-130, 220-221).      *)
run_command_fail ==
    /\ pc = "commands"
    /\ cmd_idx <= Len(commands_of(action_obj))
    /\ LET c == commands_of(action_obj)[cmd_idx] IN
       /\ ran' = Append(ran, [key |-> c.key,
                              cmd |-> cmd_with_path(c.cmd, args.path),
                              ok |-> FALSE, stdout |-> <<>>])
       /\ stdout' = stdout \o <<<<"failed">> \o c.key, <<"error">>>>
    /\ pc' = "exit"
    /\ result' = "CalledProcessError"
    /\ UNCHANGED <<now, env, client, args, action_obj, base_prompt,
                   final_prompt, cmd_idx, current_prompt, call, stream,
                   response, fileOut, clipboard>>

(* The loop is over (or there were no commands): final_prompt is returned *)
(* and becomes main's current_prompt.                                     *)
commands_return ==
    /\ pc = "commands"
    /\ cmd_idx > Len(commands_of(action_obj))
    /\ current_prompt' = final_prompt
    /\ pc' = "completion"
    /\ UNCHANGED <<now, env, client, args, action_obj, template, call, stream,
                   outputs, result>>

(* ------------------------- handle_completion -------------------------- *)
(* Variant: the action's stream option is not consulted.                  *)
UseStream_any_action(a, ao) ==
    IF a.no_stream \/ ao = Nothing THEN FALSE ELSE TRUE

(* handle_completion line 160: the streaming branch is taken.                               *)
UseStream(a, ao) ==
    IF a.no_stream \/ ao = Nothing THEN FALSE ELSE Get(ao).options.stream

(* line 166: "not args.no_spinner or action_obj.options.spinner"; the     *)
(* right operand is evaluated only when the left one is false, and it     *)
(* dereferences action_obj.                                               *)
enable_spinner(a, ao) ==
    IF ~a.no_spinner THEN "True"
    ELSE IF ao = Nothing THEN "AttributeError"
    ELSE IF Get(ao).options.spinner THEN "True" ELSE "False"

handle_completion_stream ==
    /\ pc = "completion"
    /\ UseStream(args, action_obj)
    /\ mode' = "stream"
    /\ pc' = "ensure"
    /\ UNCHANGED <<now, env, client, args, action_obj, template,
                   current_prompt, checked, httpLog, stream, outputs, result>>

handle_completion_chat ==
    /\ pc = "completion"
    /\ ~UseStream(args, action_obj)
    /\ enable_spinner(args, action_obj) # "AttributeError"
    /\ mode' = "chat"
    /\ pc' = "ensure"
    /\ UNCHANGED <<now, env, client, args, action_obj, template,
                   current_prompt, checked, httpLog, stream, outputs, result>>

handle_completion_crash ==
    /\ pc = "completion"
    /\ ~UseStream(args, action_obj)
    /\ enable_spinner(args, action_obj) = "AttributeError"
    /\ mode' = "chat"
    /\ pc' = "exit"
    /\ result' = "AttributeError"
    /\ UNCHANGED <<now, env, client, args, action_obj, template,
                   current_prompt, checked, httpLog, stream, outputs>>

(* ------------------------- _ensure_valid_token ------------------------ *)
(* Variant: a token is still used in the second it expires.               *)
NeedsRefresh_late(tok, current_time) ==
    IF tok = Nothing THEN TRUE ELSE current_time > Get(tok).expires_at

(* line 172: the token must be refreshed.                                 *)
NeedsRefresh(tok, current_time) ==
    IF tok = Nothing THEN TRUE ELSE current_time >= Get(tok).expires_at

(* _get_oauth_token: the token in memory, else the one loaded.            *)
get_oauth_token(held, hosts, apps) ==
    IF held # None /\ held # "" THEN held ELSE LoadFrom(<<hosts, apps>>)

(* Variant: the parsed model is cached instead of the response data.      *)
cache_written_parsed(token_data) ==
    File("json", Some([token |-> token_data.token,
                       expires_at |-> token_data.expires_at,
                       extra |-> FALSE]))

(* lines 159-160: what the cache file holds after a refresh.                   *)
cache_written(token_data) == File("json", Some(token_data))

(* An entry of httpLog for the GET of the token endpoint.                 *)
TokenCall(ok, returned) ==
    [kind |-> "token", ok |-> ok, stream |-> FALSE, bearer |-> Nothing,
     body |-> Nothing, returned |-> returned]

(* What _ensure_valid_token saw when it read the clock: current_time, the *)
(* token held and the cache file.                                         *)
Checked == Some([at |-> now, held |-> copilot_token, cache |-> cacheFile])

(* The token held is still good: no refresh.                              *)
ensure_token_held ==
    /\ pc = "ensure"
    /\ ~NeedsRefresh(copilot_token, now)
    /\ checked' = Checked
    /\ pc' = "post"
    /\ UNCHANGED <<now, env, client, args, action_obj, template,
                   current_prompt, mode, httpLog, stream, outputs, result>>

(* A refresh is needed and no OAuth token can be loaded.                  *)
ensure_token_no_oauth ==
    /\ pc = "ensure"
    /\ NeedsRefresh(copilot_token, now)
    /\ get_oauth_token(oauth_token, hostsFile, appsFile) = "AuthenticationError"
    /\ checked' = Checked
    /\ session_id' = "sid"
    /\ pc' = "exit"
    /\ result' = "AuthenticationError"
    /\ UNCHANGED <<now, env, oauth_token, copilot_token, args, action_obj,
                   template, current_prompt, mode, httpLog, stream, outputs>>

(* Variant: a failed exchange drops the token held.                       *)
ensure_token_exchange_fails_drops ==
    /\ pc = "ensure"
    /\ NeedsRefresh(copilot_token, now)
    /\ get_oauth_token(oauth_token, hostsFile, appsFile) # "AuthenticationError"
    /\ checked' = Checked
    /\ session_id' = "sid"
    /\ oauth_token' = get_oauth_token(oauth_token, hostsFile, appsFile)
    /\ httpLog' = Append(httpLog, TokenCall(FALSE, Nothing))
    /\ copilot_token' = Nothing
    /\ pc' = "exit"
    /\ result' = "APIError"
    /\ UNCHANGED <<now, env, args, action_obj, template,
                   current_prompt, mode, stream, outputs>>

(* The exchange request fails (transport error or HTTP status).           *)
ensure_token_exchange_fails ==
    /\ pc = "ensure"
    /\ NeedsRefresh(copilot_token, now)
    /\ get_oauth_token(oauth_token, hostsFile, appsFile) # "AuthenticationError"
    /\ checked' = Checked
    /\ session_id' = "sid"
    /\ oauth_token' = get_oauth_token(oauth_token, hostsFile, appsFile)
    /\ httpLog' = Append(httpLog, TokenCall(FALSE, Nothing))
    /\ pc' = "exit"
    /\ result' = "APIError"
    /\ UNCHANGED <<now, env, copilot_token, args, action_obj, template,
                   current_prompt, mode, stream, outputs>>

(* The exchange answers with JSON that is no token: ValidationError.      *)
ensure_token_exchange_invalid ==
    /\ pc = "ensure"
    /\ NeedsRefresh(copilot_token, now)
    /\ get_oauth_token(oauth_token, hostsFile, appsFile) # "AuthenticationError"
    /\ checked' = Checked
    /\ session_id' = "sid"
    /\ oauth_token' = get_oauth_token(oauth_token, hostsFile, appsFile)
    /\ httpLog' = Append(httpLog, TokenCall(TRUE, Nothing))
    /\ pc' = "exit"
    /\ result' = "ValidationError"
    /\ UNCHANGED <<now, env, copilot_token, args, action_obj, template,
                   current_prompt, mode, stream, outputs>>

(* The exchange answers with a token: held in memory and cached.          *)
ensure_token_exchange_ok(token_data) ==
    /\ pc = "ensure"
    /\ NeedsRefresh(copilot_token, now)
    /\ get_oauth_token(oauth_token, hostsFile, appsFile) # "AuthenticationError"
    /\ checked' = Checked
    /\ session_id' = "sid"
    /\ oauth_token' = get_oauth_token(oauth_token, hostsFile, appsFile)
    /\ httpLog' = Append(httpLog, TokenCall(TRUE, Some(token_data)))
    /\ copilot_token' = Some(CopilotToken(token_data))
    /\ cacheFile' = cache_written(token_data)
    /\ pc' = "post"
    /\ UNCHANGED <<now, hostsFile, appsFile, args, action_obj, template,
                   current_prompt, mode, stream, outputs, result>>

(* --------------------------- chat requests ---------------------------- *)
(* The request both calls build: the bearer token and the JSON body.      *)
ChatCall(is_stream, ok) ==
    [kind |-> "chat", ok |-> ok, stream |-> is_stream,
     bearer |-> copilot_token,
     body |-> Some([system |-> SystemPrompt(args, action_obj),
                    user |-> current_prompt,
                    model |-> Model(args, action_obj),
                    stream |-> is_stream,
                    session |-> session_id]),
     returned |-> Nothing]

(* chat_completion line 221: the content of the first choice.             *)
first_choice_content(chat_response) == chat_response.choices[1].message.content

ChatResponse(text) == [choices |-> <<[message |-> [role |-> "assistant",
                                                   content |-> text]]>>]

chat_completion_ok(text) ==
    /\ pc = "post" /\ mode = "chat"
    /\ httpLog' = Append(httpLog, ChatCall(FALSE, TRUE))
    /\ response' = Some(first_choice_content(ChatResponse(text)))
    /\ pc' = "finish"
    /\ UNCHANGED <<now, env, client, args, action_obj, template,
                   current_prompt, mode, checked, stream, stdout, fileOut,
                   clipboard, result>>

chat_completion_fails ==
    /\ pc = "post" /\ mode = "chat"
    /\ httpLog' = Append(httpLog, ChatCall(FALSE, FALSE))
    /\ pc' = "exit"
    /\ result' = "APIError"
    /\ UNCHANGED <<now, env, client, args, action_obj, template,
                   current_prompt, mode, checked, stream, outputs>>

(* ----------------------- stream_chat_completion ----------------------- *)
(* A response line: its bytes are empty, or it starts with "data: " or    *)
(* not, followed by a payload: the sentinel, text that is no JSON, or a   *)
(* JSON chunk with its choices.                                           *)
Choice(delta) == [delta |-> delta]
Delta(content) == Some([content |-> content])
Payload(kind, choices) == [kind |-> kind, choices |-> choices]
DonePayload == Payload("[DONE]", <<>>)
Chunk(choices) == Payload("json", choices)
Line(empty, prefixed, payload) ==
    [empty |-> empty, prefixed |-> prefixed, payload |-> payload]

Payloads ==
    { DonePayload, Payload("garbage", <<>>), Chunk(<<>>),
      Chunk(<<Choice(Nothing)>>), Chunk(<<Choice(Delta(Nothing))>>),
      Chunk(<<Choice(Delta(Some(<<>>)))>>),
      Chunk(<<Choice(Delta(Some(<<"a">>)))>>),
      Chunk(<<Choice(Delta(Some(<<"b">>)))>>) }

LineSet ==
    { Line(TRUE, FALSE, DonePayload) }
    \cup { Line(FALSE, FALSE, p) :
             p \in {DonePayload, Chunk(<<Choice(Delta(Some(<<"a">>)))>>)} }
    \cup { Line(FALSE, TRUE, p) : p \in Payloads }

(* Variant: the "data: " prefix is not required.                          *)
StreamStep_any_prefix(line) ==
    IF line.empty THEN [do |-> "skip", content |-> <<>>]
    ELSE IF line.payload.kind = "[DONE]" THEN [do |-> "break", content |-> <<>>]
    ELSE IF line.payload.kind # "json" THEN [do |-> "raise", content |-> <<>>]
    ELSE LET chunk == line.payload IN
         IF chunk.choices # <<>> /\ chunk.choices[1].delta # Nothing
         THEN LET content == Get(chunk.choices[1].delta).content IN
              IF content # Nothing /\ Get(content) # <<>>
              THEN [do |-> "yield", content |-> Get(content)]
              ELSE [do |-> "skip", content |-> <<>>]
         ELSE [do |-> "skip", content |-> <<>>]

(* Lines 269-279 for one line: skip it, break, raise, or yield content.   *)
StreamStep(line) ==
    IF line.empty THEN [do |-> "skip", content |-> <<>>]
    ELSE IF ~line.prefixed THEN [do |-> "skip", content |-> <<>>]
    ELSE IF line.payload.kind = "[DONE]" THEN [do |-> "break", content |-> <<>>]
    ELSE IF line.payload.kind # "json" THEN [do |-> "raise", content |-> <<>>]
    ELSE LET chunk == line.payload IN
         IF chunk.choices # <<>> /\ chunk.choices[1].delta # Nothing
         THEN LET content == Get(chunk.choices[1].delta).content IN
              IF content # Nothing /\ Get(content) # <<>>
              THEN [do |-> "yield", content |-> Get(content)]
              ELSE [do |-> "skip", content |-> <<>>]
         ELSE [do |-> "skip", content |-> <<>>]

(* The responses the driver's model draws from.                           *)
StreamSamples ==
    { <<Line(FALSE, TRUE, Chunk(<<Choice(Delta(Some(<<"a">>)))>>)),
        Line(FALSE, TRUE, DonePayload)>>,
      <<Line(FALSE, TRUE, Chunk(<<Choice(Delta(Some(<<"b">>)))>>)),
        Line(FALSE, TRUE, Payload("garbage", <<>>))>>,
      <<>> }

(* MarkdownStreamer.get_content: the buffer of everything streamed.       *)
get_content(yielded) == Concat(yielded)

(* The streaming request is refused (raise_for_status).                   *)
stream_open_fails ==
    /\ pc = "post" /\ mode = "stream"
    /\ httpLog' = Append(httpLog, ChatCall(TRUE, FALSE))
    /\ pc' = "exit"
    /\ result' = "APIError"
    /\ UNCHANGED <<now, env, client, args, action_obj, template,
                   current_prompt, mode, checked, stream, outputs>>

(* The streaming request is accepted; the server will send ls.            *)
stream_open(ls) ==
    /\ pc = "post" /\ mode = "stream"
    /\ httpLog' = Append(httpLog, ChatCall(TRUE, TRUE))
    /\ lines' = ls
    /\ line_idx' = 0
    /\ fragments' = <<>>
    /\ pc' = "lines"
    /\ UNCHANGED <<now, env, client, args, action_obj, template,
                   current_prompt, mode, checked, outputs, result>>

(* One iteration of the loop over response.iter_lines().                  *)
stream_line ==
    /\ pc = "lines"
    /\ line_idx < Len(lines)
    /\ LET step == StreamStep(lines[line_idx + 1]) IN
       /\ line_idx' = line_idx + 1
       /\ fragments' = IF step.do = "yield"
                       THEN Append(fragments, step.content) ELSE fragments
       /\ CASE step.do = "break" ->
                 /\ pc' = "finish"
                 /\ response' = Some(get_content(fragments))
                 /\ UNCHANGED result
            [] step.do = "raise" ->
                 /\ pc' = "exit"
                 /\ result' = "JSONDecodeError"
                 /\ UNCHANGED response
            [] OTHER -> UNCHANGED <<pc, response, result>>
    /\ UNCHANGED <<now, env, client, args, action_obj, template,
                   current_prompt, call, lines, stdout, fileOut, clipboard>>

(* The connection breaks before the next line arrives.                    *)
stream_breaks ==
    /\ pc = "lines"
    /\ line_idx < Len(lines)
    /\ pc' = "exit"
    /\ result' = "APIError"
    /\ UNCHANGED <<now, env, client, args, action_obj, template,
                   current_prompt, call, stream, outputs>>

(* The response ends without a sentinel.                                  *)
stream_end ==
    /\ pc = "lines"
    /\ line_idx = Len(lines)
    /\ pc' = "finish"
    /\ response' = Some(get_content(fragments))
    /\ UNCHANGED <<now, env, client, args, action_obj, template,
                   current_prompt, call, stream, stdout, fileOut, clipboard,
                   result>>

(* ---------------- handle_completion, lines 170-183 -------------------- *)
(* line 178, 181: the response is printed by handle_completion.           *)
PrintsResponse(a, ao) ==
    IF ao = Nothing THEN TRUE
    ELSE IF a.no_stream THEN TRUE ELSE ~Get(ao).options.stream

(* lines 171-176: the file named by the action, with "$path" replaced.    *)
OutputFile(a, ao) ==
    IF ao = Nothing THEN fileOut
    ELSE IF Get(ao).to_file # Nothing
    THEN Some([name |-> Replace(Get(Get(ao).to_file), PathVar, a.path),
               content |-> Get(response)])
    ELSE fileOut

(* The response is written to the file, printed, returned and copied.     *)
handle_completion_return ==
    /\ pc = "finish"
    /\ fileOut' = OutputFile(args, action_obj)
    /\ stdout' = IF PrintsResponse(args, action_obj)
                 THEN Append(stdout, <<"response">> \o Get(response))
                 ELSE stdout
    /\ clipboard' = IF args.copy_to_clipboard THEN response ELSE clipboard
    /\ pc' = "exit"
    /\ result' = "ok"
    /\ UNCHANGED <<now, env, client, args, action_obj, template,
                   current_prompt, call, stream, response>>

(* --------------------------- environment ------------------------------ *)
(* The clock is read only by _ensure_valid_token (line 170), so time      *)
(* passing elsewhere is folded into the ticks before that read.           *)
Tick ==
    /\ pc \in {"boot", "ensure"}
    /\ now < MaxTime
    /\ now' = now + 1
    /\ UNCHANGED <<env, client, pc, args, action_obj, template,
                   current_prompt, call, stream, outputs, result>>

(* The process has exited; the command is run again.                      *)
Rerun ==
    /\ pc = "exit"
    /\ pc' = "boot"
    /\ oauth_token' = None /\ copilot_token' = Nothing /\ session_id' = ""
    /\ args' = NoArgs /\ action_obj' = Nothing
    /\ base_prompt' = <<>> /\ final_prompt' = <<>> /\ cmd_idx' = 1
    /\ ran' = <<>> /\ current_prompt' = <<>> /\ mode' = None
    /\ checked' = Nothing /\ httpLog' = <<>>
    /\ lines' = <<>> /\ line_idx' = 0 /\ fragments' = <<>>
    /\ response' = Nothing /\ result' = None /\ stdout' = <<>>
    /\ fileOut' = Nothing /\ clipboard' = Nothing
    /\ UNCHANGED <<now, env>>

Next ==
    \/ \E a \in ArgSet : main_start(a)
    \/ \E out \in Outs : run_command_ok(out)
    \/ run_command_fail
    \/ commands_return
    \/ handle_completion_stream
    \/ handle_completion_chat
    \/ handle_completion_crash
    \/ ensure_token_held
    \/ ensure_token_no_oauth
    \/ ensure_token_exchange_fails
    \/ ensure_token_exchange_invalid
    \/ \E d \in TokenData : ensure_token_exchange_ok(d)
    \/ \E t \in Texts : chat_completion_ok(t)
    \/ chat_completion_fails
    \/ stream_open_fails
    \/ \E ls \in StreamSamples : stream_open(ls)
    \/ stream_line
    \/ stream_breaks
    \/ stream_end
    \/ handle_completion_return
    \/ Tick
    \/ Rerun

Spec == Init /\ [][Next]_vars

(* ------------- process_action_commands on its own --------------------- *)
Alphabet == {"$", "a", "b", "x"}
Keys == { <<"a">>, <<"b">>, <<"a", "b">> }
TemplateOuts == { <<>>, <<"x">>, <<"$", "b">> }

(* The commands of an action: a dict, so the keys are distinct.           *)
CommandLists ==
    { ks \in SeqsUpTo(Keys, 2) : \A i, j \in 1..Len(ks) : ks[i] = ks[j] => i = j }

TemplateAction(ks) ==
    MkAction("t", <<>>, None, Nothing, TRUE, TRUE,
             [i \in 1..Len(ks) |-> Cmd(ks[i], <<PathVar>>)])

(* process_action_commands is entered with an action and a base prompt.   *)
TemplateInit ==
    /\ now = 0
    /\ cacheFile = File("absent", Nothing)
    /\ hostsFile = "ok" /\ appsFile = "absent"
    /\ pc = "commands"
    /\ oauth_token = None /\ copilot_token = Nothing /\ session_id = ""
    /\ args = [NoArgs EXCEPT !.list = FALSE, !.action = "t"]
    /\ \E ks \in CommandLists : action_obj = Some(TemplateAction(ks))
    /\ base_prompt \in SeqsUpTo(Alphabet, MaxPrompt)
    /\ final_prompt = base_prompt
    /\ current_prompt = base_prompt
    /\ cmd_idx = 1 /\ ran = <<>>
    /\ mode = None /\ checked = Nothing /\ httpLog = <<>>
    /\ lines = <<>> /\ line_idx = 0 /\ fragments = <<>>
    /\ response = Nothing /\ result = None /\ stdout = <<>>
    /\ fileOut = Nothing /\ clipboard = Nothing

TemplateNext ==
    \/ \E out \in TemplateOuts : run_command_ok(out)
    \/ run_command_fail
    \/ commands_return

SpecTemplate == TemplateInit /\ [][TemplateNext]_vars

(* ----------------- the streaming loop on its own ---------------------- *)
(* The streaming request has been accepted and the lines are to come.     *)
StreamInit ==
    /\ now = 0
    /\ cacheFile = File("absent", Nothing)
    /\ hostsFile = "ok" /\ appsFile = "absent"
    /\ pc = "lines"
    /\ oauth_token = None /\ copilot_token = Nothing /\ session_id = ""
    /\ args = [NoArgs EXCEPT !.list = FALSE]
    /\ action_obj = Nothing
    /\ base_prompt = <<>> /\ final_prompt = <<>> /\ current_prompt = <<>>
    /\ cmd_idx = 1 /\ ran = <<>>
    /\ mode = "stream" /\ checked = Nothing /\ httpLog = <<>>
    /\ lines \in SeqsUpTo(LineSet, MaxLines)
    /\ line_idx = 0 /\ fragments = <<>>
    /\ response = Nothing /\ result = None /\ stdout = <<>>
    /\ fileOut = Nothing /\ clipboard = Nothing

StreamNext ==
    \/ stream_line
    \/ stream_breaks
    \/ stream_end

SpecStream == StreamInit /\ [][StreamNext]_vars

(* ============================ properties ============================== *)
TokenCalls == { i \in 1..Len(httpLog) : httpLog[i].kind = "token" }
ChatCalls == { i \in 1..Len(httpLog) : httpLog[i].kind = "chat" }

(* The token seen by the validity check was absent or had expired.        *)
StaleAtCheck ==
    IF Get(checked).held = Nothing THEN TRUE
    ELSE Get(checked).at >= Get(Get(checked).held).expires_at

(* C1: a chat call that finds its in-memory token with expires_at after   *)
(* the current time makes no token-exchange call; one that finds the      *)
(* token absent or expired makes at most one, and exactly one call of the *)
(* token endpoint precedes its chat request.                              *)
C1_ExchangeIffStale ==
    /\ checked = Nothing => httpLog = <<>>
    /\ checked # Nothing =>
         /\ ~StaleAtCheck => TokenCalls = {}
         /\ Cardinality(TokenCalls) <= 1
         /\ \A i \in ChatCalls :
              StaleAtCheck => TokenCalls = {1} /\ i = 2

C1_Witness ==
    /\ checked # Nothing
    /\ Get(checked).held # Nothing
    /\ StaleAtCheck
    /\ Len(httpLog) = 2
    /\ httpLog[1].kind = "token"
    /\ httpLog[2].kind = "chat"

(* C2: after an exchange that returned a token, the cache file holds      *)
(* exactly that token data, replacing what it held, and the token in      *)
(* memory is the same token.                                              *)
C2_CacheHoldsExchangedToken ==
    \A i \in TokenCalls :
        httpLog[i].returned # Nothing =>
            /\ cacheFile = File("json", httpLog[i].returned)
            /\ copilot_token = Some(CopilotToken(Get(httpLog[i].returned)))
            /\ CopilotToken(Get(cacheFile.data)) = Get(copilot_token)

C2_Witness ==
    /\ pc = "exit"
    /\ checked # Nothing
    /\ Get(checked).cache.kind = "json"
    /\ \E i \in TokenCalls :
         /\ httpLog[i].returned # Nothing
         /\ Get(httpLog[i].returned).extra
         /\ Get(httpLog[i].returned) # Get(Get(checked).cache.data)
         /\ cacheFile = File("json", httpLog[i].returned)

(* What the claim about streaming expects, read off the lines alone.      *)
IsSentinel(l) == ~l.empty /\ l.prefixed /\ l.payload.kind = "[DONE]"
FirstSentinel(ls) ==
    IF \E i \in 1..Len(ls) : IsSentinel(ls[i])
    THEN CHOOSE i \in 1..Len(ls) :
           IsSentinel(ls[i]) /\ \A j \in 1..(i - 1) : ~IsSentinel(ls[j])
    ELSE Len(ls) + 1
DeltaContent(l) ==
    IF l.empty \/ ~l.prefixed \/ l.payload.kind # "json" THEN <<>>
    ELSE IF l.payload.choices = <<>> THEN <<>>
    ELSE IF l.payload.choices[1].delta = Nothing THEN <<>>
    ELSE IF Get(l.payload.choices[1].delta).content = Nothing THEN <<>>
    ELSE Get(Get(l.payload.choices[1].delta).content)
NonEmpty(c) == c # <<>>
ContentsUpTo(ls, n) == [i \in 1..n |-> DeltaContent(ls[i])]
Min(m, n) == IF m <= n THEN m ELSE n

(* C3: the fragments yielded are the contents of the "data: " delta lines *)
(* consumed so far, in line order; no line is consumed after the first    *)
(* "data: [DONE]"; and a stream that ends normally has yielded the        *)
(* content of every delta line before that sentinel, so the text handed   *)
(* on is their concatenation.  Lines without the prefix yield nothing.    *)
C3_StreamYieldsDeltas ==
    mode = "stream" /\ pc \in {"lines", "finish", "exit"} =>
        /\ line_idx <= Min(FirstSentinel(lines), Len(lines))
        /\ fragments = SelectSeq(ContentsUpTo(lines, line_idx), NonEmpty)
        /\ pc = "finish" =>
             /\ line_idx = Min(FirstSentinel(lines), Len(lines))
             /\ Concat(fragments)
                  = Concat(ContentsUpTo(lines, FirstSentinel(lines) - 1))
             /\ response = Some(Concat(fragments))

C3_Witness ==
    /\ pc = "finish"
    /\ mode = "stream"
    /\ Len(lines) >= 3
    /\ FirstSentinel(lines) = 2
    /\ ~lines[1].empty /\ lines[1].prefixed
    /\ DeltaContent(lines[1]) # <<>>
    /\ DeltaContent(lines[3]) # <<>>
    /\ fragments = <<DeltaContent(lines[1])>>

(* Neither credentials file has an entry whose key contains "github.com". *)
NoGithubEntry ==
    /\ hostsFile \in {"absent", "nogithub"}
    /\ appsFile \in {"absent", "nogithub"}
    /\ "nogithub" \in {hostsFile, appsFile}

(* C4 as claimed: without a github.com entry a chat invocation ends in an *)
(* authentication error with no HTTP call, whatever the token cache holds.*)
C4_NoEntryAlwaysFails ==
    NoGithubEntry /\ pc = "exit" /\ mode # None /\ result # "AttributeError"
        => result = "AuthenticationError" /\ httpLog = <<>>

(* C4 amended: without a github.com entry, a chat invocation that finds   *)
(* the in-memory token absent or expired fails with an authentication     *)
(* error and no HTTP call is made.                                        *)
C4_NoEntryFailsWhenStale ==
    NoGithubEntry /\ checked # Nothing =>
        (StaleAtCheck =>
            pc = "exit" /\ result = "AuthenticationError" /\ httpLog = <<>>)

C4_Witness ==
    /\ hostsFile = "nogithub"
    /\ appsFile = "nogithub"
    /\ checked # Nothing
    /\ Get(checked).held # Nothing
    /\ StaleAtCheck
    /\ result = "AuthenticationError"

(* C5: a command that exits non-zero is the last one run; the action is   *)
(* aborted, main keeps no substituted prompt and no HTTP call is made.    *)
C5_FailedCommandAborts ==
    \A i \in 1..Len(ran) :
        ~ran[i].ok =>
            /\ i = Len(ran)
            /\ pc = "exit"
            /\ result = "CalledProcessError"
            /\ current_prompt = base_prompt
            /\ mode = None /\ checked = Nothing
            /\ httpLog = <<>>
            /\ response = Nothing

C5_Witness ==
    /\ Len(ran) = 2
    /\ ran[1].ok
    /\ ~ran[2].ok
    /\ final_prompt # base_prompt
    /\ pc = "exit"

(* The prompts in which every placeholder "$key" of the template has been *)
(* replaced by the output captured for key and nothing else is changed;   *)
(* where two keys match at one place, either may be the one replaced.     *)
RECURSIVE Substituted(_, _)
Substituted(t, r) ==
    IF t = <<>> THEN {<<>>}
    ELSE LET m == { i \in 1..Len(r) :
                      /\ Len(t) >= Len(r[i].key) + 1
                      /\ SubSeq(t, 1, Len(r[i].key) + 1) = <<"$">> \o r[i].key }
         IN IF m = {}
            THEN { <<Head(t)>> \o u : u \in Substituted(Tail(t), r) }
            ELSE UNION { { r[i].stdout \o u :
                             u \in Substituted(
                                     SubSeq(t, Len(r[i].key) + 2, Len(t)), r) }
                         : i \in m }

(* C6 as claimed: when all commands succeed, the prompt returned is the   *)
(* template with each placeholder replaced by its command's output and    *)
(* nothing else changed, whatever the outputs and the key names are.      *)
C6_PlaceholdersReplaced ==
    pc = "completion" /\ action_obj # Nothing =>
        /\ [i \in 1..Len(ran) |-> ran[i].key]
             = [i \in 1..Len(ran) |-> commands_of(action_obj)[i].key]
        /\ current_prompt \in Substituted(base_prompt, ran)

(* C7 as claimed: every chat request goes through the streaming call      *)
(* exactly when the disable-streaming flag is absent.                     *)
C7_StreamUnlessFlag ==
    \A i \in ChatCalls : httpLog[i].stream = ~args.no_stream

(* C7 amended: a chat request goes through stream_chat_completion exactly *)
(* when the flag is absent, an action is named and that action's stream   *)
(* option is on; every other chat request goes through chat_completion.   *)
C7_StreamIffActionStreams ==
    \A i \in ChatCalls :
        httpLog[i].stream
            = (/\ ~args.no_stream
               /\ args.action # None
               /\ \E a \in Actions : a.name = args.action /\ a.options.stream)

C7_Witness ==
    /\ ~args.no_stream
    /\ args.action = None
    /\ ChatCalls # {}
    /\ \A i \in ChatCalls : ~httpLog[i].stream

(* C8 as claimed: on the non-streaming path, with or without an action    *)
(* and for either value of the spinner flag, handle_completion does not   *)
(* fail: unless authentication or an HTTP call failed, it gets the chat   *)
(* response, returns its first choice's content and prints it once.       *)
C8_NonStreamingRoundTrip ==
    /\ pc = "exit" /\ mode = "chat"
    /\ result \notin {"AuthenticationError", "APIError", "ValidationError"}
    => /\ result = "ok"
       /\ \E i \in ChatCalls : httpLog[i].ok /\ ~httpLog[i].stream
       /\ response # Nothing
       /\ stdout = << <<"response">> \o Get(response) >>

(* C9 as claimed: every chat request carries a token that is valid at the *)
(* time of the validity check, also when an exchange has just issued it.  *)
C9_BearerValidAtCheck ==
    \A i \in ChatCalls :
        /\ httpLog[i].bearer # Nothing
        /\ Get(checked).at < Get(httpLog[i].bearer).expires_at

(* C10: a failed exchange request surfaces as an APIError after that one  *)
(* attempt; no chat request follows and the token in memory and the cache *)
(* file are what they were.                                               *)
C10_FailedExchangeSurfaces ==
    \A i \in TokenCalls :
        ~httpLog[i].ok =>
            /\ httpLog = <<TokenCall(FALSE, Nothing)>>
            /\ pc = "exit"
            /\ result = "APIError"
            /\ copilot_token = Get(checked).held
            /\ cacheFile = Get(checked).cache
            /\ response = Nothing

C10_Witness ==
    /\ result = "APIError"
    /\ TokenCalls # {}
    /\ copilot_token # Nothing
    /\ cacheFile.kind = "json"
====
